---- MODULE Spec2Model ----
(***************************************************************************)
(* Model of the snapshot store of the revm example                         *)
(* (examples/revm/src/application/ledger/snapshot_store.rs) together with  *)
(* the persistence driver that calls it.  The store's operations are       *)
(* translated from snapshot_store.rs; the driver (ledger), ChangeSet::merge *)
(* (kora_qmdb) and the durable commit follow the written specification.    *)
(***************************************************************************)
EXTENDS Integers, Sequences, FiniteSets, TLC

\* ---------------------------------------------------------------- bounds
MaxDigest == 2      \* digests are 0..MaxDigest, 0 is the genesis digest
NumCallers == 2     \* tasks that drive persistence
MaxDelta == 1       \* distinct non-empty block Change Sets
MaxVal == 1         \* account versions and slot values are 0..MaxVal
MaxSlot == 1        \* storage slots are 1..MaxSlot
MaxGen == 1         \* account generations are 0..MaxGen
NumHolders == 2     \* threads that hold a clone of the handle
MaxRoot == 2        \* partition roots are 0..MaxRoot

\* ------------------------------------------------------------- constants
\* Option::None of snapshot.parent (digests are non-negative)
None == 0 - 1
Genesis == 0

Digests == 0..MaxDigest
Callers == 1..NumCallers

\* ------------------------------------------------------------ Change Set
\* A Change Set is a finite map address -> Account Update.
EmptyChangeSet == [a \in {} |-> 0]

\* storage maps unioned, newer slot values overriding older ones
MergeStorage(older, newer) ==
    [s \in (DOMAIN older) \cup (DOMAIN newer) |->
        IF s \in DOMAIN newer THEN newer[s] ELSE older[s]]

\* newer account's scalar fields, storage maps unioned
MergeUpdate(older, newer) ==
    [newer EXCEPT !.storage = MergeStorage(older.storage, newer.storage)]

\* ChangeSet::merge(older, newer)
merge(older, newer) ==
    [a \in (DOMAIN older) \cup (DOMAIN newer) |->
        IF a \in DOMAIN newer
        THEN IF a \in DOMAIN older THEN MergeUpdate(older[a], newer[a])
                                   ELSE newer[a]
        ELSE older[a]]

\* the delta of block n: writes nonce, balance and slot 1 of address 1
Delta(d, n) ==
    [a \in {1} |->
        [created |-> FALSE, selfdestructed |-> FALSE, nonce |-> d,
         balance |-> n, code_hash |-> 0, code |-> None,
         storage |-> [s \in {1} |-> d]]]

BlockChanges(d) == {EmptyChangeSet} \cup {Delta(d, n) : n \in 1..MaxDelta}

\* ---------------------------------------------------------------- state
VARIABLES
    snapshots,   \* SnapshotStore.snapshots: digest -> LedgerSnapshot
    persisted,   \* SnapshotStore.persisted
    persisting,  \* SnapshotStore.persisting
    pc,          \* per caller: "idle", "checked", "commit" or "hung"
    attempt,     \* per caller: the chain it is persisting
    result,      \* per caller: outcome of its last step
    storeLog,    \* successful commits of the durable store, oldest first
    store,       \* the partitioned store behind the QmdbHandle
    overlay,     \* OverlayState.changes of the overlay over the handle
    executed,    \* the Change Set the last execution returned
    stacked,     \* OverlayState.changes of an overlay whose base is `overlay`
    reported,    \* the last call on the handle and what it returned
    lock,        \* the RwLock of the handle: writer, readers, poisoned
    hold,        \* per holder: its call and how far it got
    txn,         \* store before and after the commit last begun
    rootCalls    \* the last two calls of StateRoot::compute: inputs and root

stateVars == <<store, overlay, executed>>

handleVars == <<stacked, reported, lock, hold, txn>>

vars == <<snapshots, persisted, persisting, pc, attempt, result, storeLog,
          store, overlay, executed, stacked, reported, lock, hold, txn,
          rootCalls>>

\* LedgerSnapshot { parent, qmdb_changes }
LedgerSnapshot(parent, changes) == [parent |-> parent, qmdb_changes |-> changes]

NoAttempt == [digest |-> None, chain |-> <<>>, changes |-> EmptyChangeSet]

Range(seq) == {seq[i] : i \in 1..Len(seq)}

\* ------------------------------------------------- SnapshotStore methods
\* SnapshotStore::insert: BTreeMap::insert, replacing any previous entry
insert(snaps, digest, snapshot) ==
    [d \in (DOMAIN snaps) \cup {digest} |->
        IF d = digest THEN snapshot ELSE snaps[d]]

can_persist_chain_skip_persisted(ps, pg, chain) ==
    \A i \in 1..Len(chain) : chain[i] \notin pg

can_persist_chain_skip_persisting(ps, pg, chain) ==
    \A i \in 1..Len(chain) : chain[i] \notin ps

can_persist_chain(ps, pg, chain) ==
    \A i \in 1..Len(chain) : chain[i] \notin ps /\ chain[i] \notin pg

mark_persisting_chain_first_only(pg, chain) ==
    IF chain = <<>> THEN pg ELSE pg \cup {chain[1]}

mark_persisting_chain_last_only(pg, chain) ==
    IF chain = <<>> THEN pg ELSE pg \cup {chain[Len(chain)]}

mark_persisting_chain(pg, chain) == pg \cup Range(chain)

clear_persisting_chain_keep_last(pg, chain) ==
    IF chain = <<>> THEN pg ELSE pg \ Range(SubSeq(chain, 1, Len(chain) - 1))

clear_persisting_chain(pg, chain) == pg \ Range(chain)

mark_persisted_chain_first_only(ps, chain) ==
    IF chain = <<>> THEN ps ELSE ps \cup {chain[1]}

mark_persisted_chain_last_only(ps, chain) ==
    IF chain = <<>> THEN ps ELSE ps \cup {chain[Len(chain)]}

mark_persisted_chain(ps, chain) == ps \cup Range(chain)

Reverse(seq) == [i \in 1..Len(seq) |-> seq[Len(seq) + 1 - i]]

RECURSIVE Walk_stop_at_genesis(_, _, _, _)
Walk_stop_at_genesis(snaps, ps, digest, chain) ==
    IF digest = Genesis THEN [ok |-> TRUE, err |-> "", chain |-> chain]
    ELSE IF digest \notin DOMAIN snaps
    THEN [ok |-> FALSE, err |-> "missing snapshot", chain |-> <<>>]
    ELSE IF snaps[digest].parent = None
    THEN [ok |-> FALSE, err |-> "missing parent snapshot", chain |-> <<>>]
    ELSE IF Len(chain) > MaxDigest
    THEN [ok |-> FALSE, err |-> "diverges", chain |-> <<>>]
    ELSE Walk_stop_at_genesis(snaps, ps, snaps[digest].parent,
                              Append(chain, digest))

RECURSIVE Walk_none_parent_ends_chain(_, _, _, _)
Walk_none_parent_ends_chain(snaps, ps, digest, chain) ==
    IF digest \in ps THEN [ok |-> TRUE, err |-> "", chain |-> chain]
    ELSE IF digest \notin DOMAIN snaps
    THEN [ok |-> FALSE, err |-> "missing snapshot", chain |-> <<>>]
    ELSE IF snaps[digest].parent = None
    THEN [ok |-> TRUE, err |-> "", chain |-> Append(chain, digest)]
    ELSE IF Len(chain) > MaxDigest
    THEN [ok |-> FALSE, err |-> "diverges", chain |-> <<>>]
    ELSE Walk_none_parent_ends_chain(snaps, ps, snaps[digest].parent,
                                     Append(chain, digest))

RECURSIVE Walk_ignores_persisted(_, _, _, _)
Walk_ignores_persisted(snaps, ps, digest, chain) ==
    IF digest \notin DOMAIN snaps
    THEN [ok |-> FALSE, err |-> "missing snapshot", chain |-> <<>>]
    ELSE IF snaps[digest].parent = None
    THEN [ok |-> FALSE, err |-> "missing parent snapshot", chain |-> <<>>]
    ELSE IF Len(chain) > MaxDigest
    THEN [ok |-> FALSE, err |-> "diverges", chain |-> <<>>]
    ELSE Walk_ignores_persisted(snaps, ps, snaps[digest].parent,
                                Append(chain, digest))

\* the while loop of merged_changes_for_persist: newest-first chain, or an
\* error; a walk longer than the number of digests never terminates
RECURSIVE Walk(_, _, _, _)
Walk(snaps, ps, digest, chain) ==
    IF digest \in ps THEN [ok |-> TRUE, err |-> "", chain |-> chain]
    ELSE IF digest \notin DOMAIN snaps
    THEN [ok |-> FALSE, err |-> "missing snapshot", chain |-> <<>>]
    ELSE IF snaps[digest].parent = None
    THEN [ok |-> FALSE, err |-> "missing parent snapshot", chain |-> <<>>]
    ELSE IF Len(chain) > MaxDigest
    THEN [ok |-> FALSE, err |-> "diverges", chain |-> <<>>]
    ELSE Walk(snaps, ps, snaps[digest].parent, Append(chain, digest))

\* the for loop of merged_changes_for_persist over chain[1..n]
RECURSIVE FoldChain(_, _, _)
FoldChain(snaps, chain, n) ==
    IF n = 0 THEN EmptyChangeSet
    ELSE merge(FoldChain(snaps, chain, n - 1), snaps[chain[n]].qmdb_changes)

merged_changes_for_persist_no_reverse(snaps, ps, digest) ==
    LET w == Walk(snaps, ps, digest, <<>>) IN
    IF ~w.ok THEN [ok |-> FALSE, err |-> w.err, chain |-> <<>>,
                   changes |-> EmptyChangeSet]
    ELSE [ok |-> TRUE, err |-> "", chain |-> w.chain,
          changes |-> FoldChain(snaps, w.chain, Len(w.chain))]

merged_changes_for_persist(snaps, ps, digest) ==
    LET w == Walk(snaps, ps, digest, <<>>) IN
    IF ~w.ok THEN [ok |-> FALSE, err |-> w.err, chain |-> <<>>,
                   changes |-> EmptyChangeSet]
    ELSE IF w.chain = <<>>
    THEN [ok |-> TRUE, err |-> "", chain |-> <<>>, changes |-> EmptyChangeSet]
    ELSE LET chain == Reverse(w.chain) IN
         [ok |-> TRUE, err |-> "", chain |-> chain,
          changes |-> FoldChain(snaps, chain, Len(chain))]

\* ------------------------------------------------------ Account Updates
\* address 1 is a contract account, address 2 an externally owned account
Addresses == {1, 2}
Slots == 1..MaxSlot

\* alloy_primitives::KECCAK256_EMPTY, the code hash of an account without code
KECCAK256_EMPTY == 99

\* B256::ZERO, the placeholder root
B256_ZERO == 0

NoStorage == [s \in {} |-> 0]

StorageMaps == UNION {[S -> 0..MaxVal] : S \in SUBSET Slots}

\* AccountUpdate { created, selfdestructed, nonce, balance, code_hash, code,
\* storage }: version v of an account has nonce v, balance 10 v and its own
\* code hash
AccountUpdate(created, selfdestructed, v, storage) ==
    [created |-> created, selfdestructed |-> selfdestructed, nonce |-> v,
     balance |-> 10 * v, code_hash |-> 100 + v, code |-> None,
     storage |-> storage]

ContractUpdates ==
    {AccountUpdate(c, x, v, m) :
        c \in BOOLEAN, x \in BOOLEAN, v \in 0..MaxVal, m \in StorageMaps}

\* transfers: no flag and no storage write
PlainUpdates == {AccountUpdate(FALSE, FALSE, v, NoStorage) : v \in 0..MaxVal}

UpdatesOf(a) == IF a = 1 THEN ContractUpdates ELSE PlainUpdates

ChangeSets ==
    UNION {{cs \in [A -> ContractUpdates \cup PlainUpdates] :
                \A a \in A : cs[a] \in UpdatesOf(a)} : A \in SUBSET Addresses}

\* the Change Sets of blocks that touch the contract account only
ContractChangeSets == {cs \in ChangeSets : DOMAIN cs \subseteq {1}}

\* ------------------------------------------------------ partitioned store
\* three partitions: accounts (address -> Account Record), storage
\* (Storage Key -> value) and code (code hash -> bytes)
EmptyStore ==
    [accounts |-> [a \in {} |-> 0], storage |-> [k \in {} |-> 0],
     code |-> [h \in {} |-> 0]]

StorageKey(address, generation, slot) == <<address, generation, slot>>

\* the accounts the Change Set destroys, and those it writes
Destroyed(cs) == {a \in DOMAIN cs : cs[a].selfdestructed}

Written(cs) == (DOMAIN cs) \ Destroyed(cs)

\* the generation a written account gets: bumped when an account that has a
\* record is created again
CommitGeneration(st, cs, a) ==
    IF a \in DOMAIN st.accounts
    THEN IF cs[a].created THEN st.accounts[a].generation + 1
                          ELSE st.accounts[a].generation
    ELSE 0

\* QmdbStore::commit_changes: a selfdestructed account loses its record and
\* its storage entries stay under their generation-tagged keys; every other
\* update writes the record, its slots under the record's generation and
\* its code
commit_changes(st, cs) ==
    LET keys == UNION {{StorageKey(a, CommitGeneration(st, cs, a), s) :
                            s \in DOMAIN cs[a].storage} : a \in Written(cs)}
        hashes == {cs[a].code_hash : a \in {x \in Written(cs) : cs[x].code # None}}
    IN  [accounts |->
            [a \in ((DOMAIN st.accounts) \cup Written(cs)) \ Destroyed(cs) |->
                IF a \in DOMAIN cs
                THEN [nonce |-> cs[a].nonce, balance |-> cs[a].balance,
                      code_hash |-> cs[a].code_hash,
                      generation |-> CommitGeneration(st, cs, a)]
                ELSE st.accounts[a]],
         storage |->
            [k \in (DOMAIN st.storage) \cup keys |->
                IF k \in keys THEN cs[k[1]].storage[k[3]] ELSE st.storage[k]],
         code |->
            [h \in (DOMAIN st.code) \cup hashes |->
                IF h \in hashes
                THEN cs[CHOOSE a \in Written(cs) :
                            cs[a].code_hash = h /\ cs[a].code # None].code
                ELSE st.code[h]]]

\* QmdbHandle::init_genesis: one created account per allocation
GenesisChanges_nonce_one(allocs) ==
    [a \in DOMAIN allocs |->
        [created |-> TRUE, selfdestructed |-> FALSE, nonce |-> 1,
         balance |-> allocs[a], code_hash |-> KECCAK256_EMPTY,
         code |-> None, storage |-> NoStorage]]

GenesisChanges(allocs) ==
    [a \in DOMAIN allocs |->
        [created |-> TRUE, selfdestructed |-> FALSE, nonce |-> 0,
         balance |-> allocs[a], code_hash |-> KECCAK256_EMPTY,
         code |-> None, storage |-> NoStorage]]

init_genesis(st, allocs) == commit_changes(st, GenesisChanges(allocs))

\* the store after bootstrap: the externally owned account holds a balance
GenesisStore == init_genesis(EmptyStore, [a \in {2} |-> 10])

\* --------------------------------------------------- reads of the handle
\* Result<_, StateDbError>
Ok(v) == [ok |-> TRUE, value |-> v, err |-> ""]

Err(e) == [ok |-> FALSE, value |-> 0, err |-> e]

QmdbHandle_nonce(st, address) ==
    IF address \in DOMAIN st.accounts
    THEN Ok(st.accounts[address].nonce)
    ELSE Err("AccountNotFound")

QmdbHandle_balance(st, address) ==
    IF address \in DOMAIN st.accounts
    THEN Ok(st.accounts[address].balance)
    ELSE Err("AccountNotFound")

QmdbHandle_code_hash(st, address) ==
    IF address \in DOMAIN st.accounts
    THEN Ok(st.accounts[address].code_hash)
    ELSE Err("AccountNotFound")

QmdbHandle_storage_skips_account(st, address, slot) ==
    LET key == StorageKey(address, 0, slot)
    IN  IF key \in DOMAIN st.storage THEN Ok(st.storage[key]) ELSE Ok(0)

QmdbHandle_storage(st, address, slot) ==
    IF address \notin DOMAIN st.accounts
    THEN Ok(0)
    ELSE LET key == StorageKey(address, st.accounts[address].generation, slot)
         IN  IF key \in DOMAIN st.storage THEN Ok(st.storage[key]) ELSE Ok(0)

\* DatabaseRef::basic_ref: the account info, or no account
QmdbHandle_basic_ref(st, address) ==
    IF address \in DOMAIN st.accounts
    THEN Ok([nonce |-> st.accounts[address].nonce,
             balance |-> st.accounts[address].balance,
             code_hash |-> st.accounts[address].code_hash, code |-> None])
    ELSE Ok(None)

\* Bytes::new(), the empty byte string
EmptyBytes == 0

\* the code hashes callers look up: the all-zero hash, the empty-code hash
\* and the hashes of the contract's versions
CodeHashes == {B256_ZERO, KECCAK256_EMPTY} \cup {100 + v : v \in 0..MaxVal}

\* StateDbRead::code (DatabaseRef::code_by_hash_ref alike)
QmdbHandle_code(st, code_hash) ==
    IF code_hash = KECCAK256_EMPTY \/ code_hash = B256_ZERO
    THEN Ok(EmptyBytes)
    ELSE IF code_hash \in DOMAIN st.code
         THEN Ok(st.code[code_hash])
         ELSE Err("CodeNotFound")

\* StateDbRead::exists, from the results of nonce and balance
exists_errors_as_absent(nonce, balance) ==
    IF nonce.ok
    THEN IF nonce.value > 0
         THEN Ok(TRUE)
         ELSE IF balance.ok THEN Ok(balance.value # 0) ELSE balance
    ELSE Ok(FALSE)

exists(nonce, balance) ==
    IF nonce.ok
    THEN IF nonce.value > 0
         THEN Ok(TRUE)
         ELSE IF balance.ok THEN Ok(balance.value # 0) ELSE balance
    ELSE IF nonce.err = "AccountNotFound" THEN Ok(FALSE) ELSE nonce

QmdbHandle_exists(st, address) ==
    exists(QmdbHandle_nonce(st, address), QmdbHandle_balance(st, address))

\* QmdbHandle::commit
QmdbHandle_commit(st, changes) == commit_changes(st, changes)

\* QmdbHandle::merge_changes: older.merge(newer); older
merge_changes_drop_selfdestructed(older, newer) ==
    LET merged == merge(older, newer)
    IN  [a \in (DOMAIN merged) \ Destroyed(merged) |-> merged[a]]

merge_changes(older, newer) == merge(older, newer)

\* --------------------------------------------------------- state roots
\* StateRoot::compute: hash of the namespace tag and the three partition
\* roots; distinct inputs give distinct roots and no root is zero
StateRoot_compute_unordered(accounts_root, storage_root, code_root) ==
    1 + accounts_root + storage_root + code_root

StateRoot_compute(accounts_root, storage_root, code_root) ==
    1 + accounts_root + (MaxRoot + 1) * storage_root
      + (MaxRoot + 1) * (MaxRoot + 1) * code_root

\* the partition roots handed to StateRoot::compute
Roots == 0..MaxRoot

\* one call of StateRoot::compute: its arguments and the root it returned
RootCall(accounts_root, storage_root, code_root) ==
    [args |-> <<accounts_root, storage_root, code_root>>,
     root |-> StateRoot_compute(accounts_root, storage_root, code_root)]

\* both calls made on the all-zero roots, as the placeholder does
NoRootCalls == [i \in 1..2 |-> RootCall(B256_ZERO, B256_ZERO, B256_ZERO)]

\* StateDbWrite::commit of the handle returns the placeholder root
QmdbHandle_commit_root(st, changes) == B256_ZERO

\* StateDbWrite::compute_root of the handle
QmdbHandle_compute_root(st, changes) ==
    StateRoot_compute(B256_ZERO, B256_ZERO, B256_ZERO)

\* StateDb::state_root of the handle
QmdbHandle_state_root(st) == B256_ZERO

\* what a call returned: ok is a normal return, err the error of an error
\* return, failed tells that the call did not do what it was asked
Returned(op, root) ==
    [op |-> op, ok |-> TRUE, root |-> root, err |-> "", failed |-> FALSE]

NoCall == Returned("none", B256_ZERO)

\* -------------------------------------------------- reads of the overlay
\* OverlayState { base, changes } over a handle
OverlayState_nonce_base_first(base, changes, address) ==
    IF address \in DOMAIN base.accounts
    THEN QmdbHandle_nonce(base, address)
    ELSE IF address \in DOMAIN changes
         THEN Ok(changes[address].nonce)
         ELSE QmdbHandle_nonce(base, address)

OverlayState_nonce(base, changes, address) ==
    IF address \in DOMAIN changes
    THEN Ok(changes[address].nonce)
    ELSE QmdbHandle_nonce(base, address)

OverlayState_balance(base, changes, address) ==
    IF address \in DOMAIN changes
    THEN Ok(changes[address].balance)
    ELSE QmdbHandle_balance(base, address)

OverlayState_code_hash(base, changes, address) ==
    IF address \in DOMAIN changes
    THEN Ok(changes[address].code_hash)
    ELSE QmdbHandle_code_hash(base, address)

OverlayState_storage_map_first(base, changes, address, slot) ==
    IF address \in DOMAIN changes
    THEN LET update == changes[address]
         IN  IF slot \in DOMAIN update.storage THEN Ok(update.storage[slot])
             ELSE IF update.selfdestructed THEN Ok(0)
             ELSE IF update.created THEN Ok(0)
             ELSE QmdbHandle_storage(base, address, slot)
    ELSE QmdbHandle_storage(base, address, slot)

OverlayState_storage_created_reads_base(base, changes, address, slot) ==
    IF address \in DOMAIN changes
    THEN LET update == changes[address]
         IN  IF update.selfdestructed THEN Ok(0)
             ELSE IF slot \in DOMAIN update.storage THEN Ok(update.storage[slot])
             ELSE QmdbHandle_storage(base, address, slot)
    ELSE QmdbHandle_storage(base, address, slot)

OverlayState_storage(base, changes, address, slot) ==
    IF address \in DOMAIN changes
    THEN LET update == changes[address]
         IN  IF update.selfdestructed THEN Ok(0)
             ELSE IF slot \in DOMAIN update.storage THEN Ok(update.storage[slot])
             ELSE IF update.created THEN Ok(0)
             ELSE QmdbHandle_storage(base, address, slot)
    ELSE QmdbHandle_storage(base, address, slot)

OverlayState_exists(base, changes, address) ==
    exists(OverlayState_nonce(base, changes, address),
           OverlayState_balance(base, changes, address))

\* what commit and compute_root of an overlay hand to its base: the overlay's
\* own Change Set with the caller's merged on top
OverlayState_merged_newer_first(changes, newer) == merge(newer, changes)

OverlayState_merged(changes, newer) == merge(changes, newer)

\* OverlayState::commit: the caller's changes merged on top of the overlay's
\* own, committed to the base
OverlayState_commit(base, changes, newer) ==
    QmdbHandle_commit(base, OverlayState_merged(changes, newer))

\* OverlayState::compute_root: the same merged set, given to the base's
\* compute_root
OverlayState_compute_root(base, changes, newer) ==
    QmdbHandle_compute_root(base, OverlayState_merged(changes, newer))

\* ----------------------------------------------------- lock of the handle
Holders == 1..NumHolders

\* Arc<RwLock<QmdbStore>>: no writer, no reader, not poisoned
Unlocked == [writers |-> {}, readers |-> {}, poisoned |-> FALSE]

\* a holder outside any call
Idle == [pc |-> "idle", entry |-> "none"]

\* RwLock: a read guard is granted when no writer holds the lock, a write
\* guard when nobody holds it
CanRead(l) == l.writers = {}

CanWrite_ignores_readers(l) == l.writers = {}

CanWrite(l) == l.writers = {} /\ l.readers = {}

\* QmdbHandle::read: self.inner.read().map_err(|_| LockPoisoned)
QmdbHandle_read_ignores_poison(l) == "guard"

QmdbHandle_read(l) == IF l.poisoned THEN "LockPoisoned" ELSE "guard"

\* QmdbHandle::write: self.inner.write().map_err(|_| LockPoisoned)
QmdbHandle_write(l) == IF l.poisoned THEN "LockPoisoned" ELSE "guard"

\* what a read of the handle can return under lock l when the store holds
\* the answer r: self.read().map_err(|_| LockPoisoned)?, then the get of
\* the partition, whose error is handed on as Storage
Outcomes(l, r) ==
    IF QmdbHandle_read(l) = "LockPoisoned"
    THEN {Err("LockPoisoned")}
    ELSE {r, Err("Storage")}

\* the commit entry points of the handle
CommitEntries == {"commit", "init_genesis", "StateDbWrite", "DatabaseCommit"}

\* how an entry point returns when the commit under it ended as `underlying`
\* ("ok", "LockPoisoned" or "Storage"): `?` and map_err hand the error on,
\* DatabaseCommit::commit drops it (let _ = ...)
Returns(entry, underlying) ==
    IF underlying = "ok" THEN Returned(entry, B256_ZERO)
    ELSE IF entry = "DatabaseCommit"
         THEN [Returned(entry, B256_ZERO) EXCEPT !.failed = TRUE]
         ELSE [op |-> entry, ok |-> FALSE, root |-> B256_ZERO,
               err |-> underlying, failed |-> TRUE]

\* a block that touches all three partitions: record, slot 1 and code of
\* the contract account
Touch(v) ==
    [a \in {1} |->
        [AccountUpdate(FALSE, FALSE, v, [s \in {1} |-> v])
            EXCEPT !.code = 200 + v]]

\* the Change Sets an entry point commits
HandleChanges(entry) ==
    IF entry = "init_genesis"
    THEN {GenesisChanges([a \in {1} |-> 10])}
    ELSE {Touch(v) : v \in 0..MaxVal}

\* ------------------------------------------------------------------ Init
Init_genesis_not_persisted ==
    /\ snapshots = [d \in {Genesis} |-> LedgerSnapshot(None, EmptyChangeSet)]
    /\ persisted = {}
    /\ persisting = {}
    /\ pc = [c \in Callers |-> "idle"]
    /\ attempt = [c \in Callers |-> NoAttempt]
    /\ result = [c \in Callers |-> "none"]
    /\ storeLog = <<>>
    /\ store = GenesisStore
    /\ overlay = EmptyChangeSet
    /\ executed = EmptyChangeSet
    /\ stacked = EmptyChangeSet
    /\ reported = NoCall
    /\ lock = Unlocked
    /\ hold = [h \in Holders |-> Idle]
    /\ txn = [pre |-> GenesisStore, post |-> GenesisStore]
    /\ rootCalls = NoRootCalls

\* SnapshotStore::new(genesis_digest, genesis_snapshot)
Init ==
    /\ snapshots = [d \in {Genesis} |-> LedgerSnapshot(None, EmptyChangeSet)]
    /\ persisted = {Genesis}
    /\ persisting = {}
    /\ pc = [c \in Callers |-> "idle"]
    /\ attempt = [c \in Callers |-> NoAttempt]
    /\ result = [c \in Callers |-> "none"]
    /\ storeLog = <<>>
    /\ store = GenesisStore
    /\ overlay = EmptyChangeSet
    /\ executed = EmptyChangeSet
    /\ stacked = EmptyChangeSet
    /\ reported = NoCall
    /\ lock = Unlocked
    /\ hold = [h \in Holders |-> Idle]
    /\ txn = [pre |-> GenesisStore, post |-> GenesisStore]
    /\ rootCalls = NoRootCalls

\* ------------------------------------------------ persistence driver
\* a proposal was executed: record its snapshot under a new digest whose
\* parent is already known
InsertSnapshot(d, parent, changes) ==
    /\ d \notin DOMAIN snapshots
    /\ parent \in DOMAIN snapshots
    /\ snapshots' = insert(snapshots, d, LedgerSnapshot(parent, changes))
    /\ UNCHANGED <<persisted, persisting, pc, attempt, result, storeLog>>
    /\ UNCHANGED stateVars
    /\ UNCHANGED handleVars
    /\ UNCHANGED rootCalls

Merged(d) == merged_changes_for_persist(snapshots, persisted, d)

AttemptOf(d, r) == [digest |-> d, chain |-> r.chain, changes |-> r.changes]

\* finalization of d: the chain cannot be rebuilt, the error is returned
PersistError(c, d) ==
    /\ pc[c] = "idle"
    /\ ~Merged(d).ok /\ Merged(d).err # "diverges"
    /\ result' = [result EXCEPT ![c] = "error"]
    /\ attempt' = [attempt EXCEPT ![c] = NoAttempt]
    /\ UNCHANGED <<snapshots, persisted, persisting, pc, storeLog>>
    /\ UNCHANGED stateVars
    /\ UNCHANGED handleVars
    /\ UNCHANGED rootCalls

\* finalization of d: d is already persisted, nothing to commit
PersistNoop(c, d) ==
    /\ pc[c] = "idle"
    /\ Merged(d).ok /\ Merged(d).chain = <<>>
    /\ result' = [result EXCEPT ![c] = "noop"]
    /\ attempt' = [attempt EXCEPT ![c] = NoAttempt]
    /\ UNCHANGED <<snapshots, persisted, persisting, pc, storeLog>>
    /\ UNCHANGED stateVars
    /\ UNCHANGED handleVars
    /\ UNCHANGED rootCalls

\* finalization of d: can_persist_chain returned false, no commit starts
PersistDeclined(c, d) ==
    /\ pc[c] = "idle"
    /\ Merged(d).ok /\ Merged(d).chain # <<>>
    /\ ~can_persist_chain(persisted, persisting, Merged(d).chain)
    /\ result' = [result EXCEPT ![c] = "declined"]
    /\ attempt' = [attempt EXCEPT ![c] = AttemptOf(d, Merged(d))]
    /\ UNCHANGED <<snapshots, persisted, persisting, pc, storeLog>>
    /\ UNCHANGED stateVars
    /\ UNCHANGED handleVars
    /\ UNCHANGED rootCalls

\* finalization of d: can_persist_chain returned true and the chain is
\* marked in the same exclusive section; the commit is now in flight
PersistStart(c, d) ==
    /\ pc[c] = "idle"
    /\ Merged(d).ok /\ Merged(d).chain # <<>>
    /\ can_persist_chain(persisted, persisting, Merged(d).chain)
    /\ persisting' = mark_persisting_chain(persisting, Merged(d).chain)
    /\ pc' = [pc EXCEPT ![c] = "commit"]
    /\ result' = [result EXCEPT ![c] = "started"]
    /\ attempt' = [attempt EXCEPT ![c] = AttemptOf(d, Merged(d))]
    /\ UNCHANGED <<snapshots, persisted, storeLog>>
    /\ UNCHANGED stateVars
    /\ UNCHANGED handleVars
    /\ UNCHANGED rootCalls

\* the store commit of the merged Change Set succeeded
CommitOk(c) ==
    /\ pc[c] = "commit"
    /\ storeLog' = Append(storeLog, [chain |-> attempt[c].chain,
                                     changes |-> attempt[c].changes])
    /\ persisted' = mark_persisted_chain(persisted, attempt[c].chain)
    /\ pc' = [pc EXCEPT ![c] = "idle"]
    /\ result' = [result EXCEPT ![c] = "ok"]
    /\ UNCHANGED <<snapshots, persisting, attempt>>
    /\ UNCHANGED stateVars
    /\ UNCHANGED handleVars
    /\ UNCHANGED rootCalls

\* the store commit failed: the chain is unwound
CommitFail(c) ==
    /\ pc[c] = "commit"
    /\ persisting' = clear_persisting_chain(persisting, attempt[c].chain)
    /\ pc' = [pc EXCEPT ![c] = "idle"]
    /\ result' = [result EXCEPT ![c] = "failed"]
    /\ UNCHANGED <<snapshots, persisted, attempt, storeLog>>
    /\ UNCHANGED stateVars
    /\ UNCHANGED handleVars
    /\ UNCHANGED rootCalls

Next ==
    \/ \E d \in Digests, p \in Digests : \E ch \in BlockChanges(d) :
            InsertSnapshot(d, p, ch)
    \/ \E c \in Callers, d \in Digests : PersistError(c, d)
    \/ \E c \in Callers, d \in Digests : PersistNoop(c, d)
    \/ \E c \in Callers, d \in Digests : PersistDeclined(c, d)
    \/ \E c \in Callers, d \in Digests : PersistStart(c, d)
    \/ \E c \in Callers : CommitOk(c)
    \/ \E c \in Callers : CommitFail(c)

Spec == Init /\ [][Next]_vars

\* ---------------------------------- callers without an exclusive section
\* can_persist_chain returned true; the caller has not marked the chain yet
RacyCheck(c, d) ==
    /\ pc[c] = "idle"
    /\ Merged(d).ok /\ Merged(d).chain # <<>>
    /\ can_persist_chain(persisted, persisting, Merged(d).chain)
    /\ pc' = [pc EXCEPT ![c] = "checked"]
    /\ result' = [result EXCEPT ![c] = "checked"]
    /\ attempt' = [attempt EXCEPT ![c] = AttemptOf(d, Merged(d))]
    /\ UNCHANGED <<snapshots, persisted, persisting, storeLog>>
    /\ UNCHANGED stateVars
    /\ UNCHANGED handleVars
    /\ UNCHANGED rootCalls

\* mark_persisting_chain in a later step, then the commit starts
RacyMark(c) ==
    /\ pc[c] = "checked"
    /\ persisting' = mark_persisting_chain(persisting, attempt[c].chain)
    /\ pc' = [pc EXCEPT ![c] = "commit"]
    /\ result' = [result EXCEPT ![c] = "started"]
    /\ UNCHANGED <<snapshots, persisted, attempt, storeLog>>
    /\ UNCHANGED stateVars
    /\ UNCHANGED handleVars
    /\ UNCHANGED rootCalls

RacyNext ==
    \/ \E d \in Digests, p \in Digests : \E ch \in BlockChanges(d) :
            InsertSnapshot(d, p, ch)
    \/ \E c \in Callers, d \in Digests : PersistError(c, d)
    \/ \E c \in Callers, d \in Digests : PersistNoop(c, d)
    \/ \E c \in Callers, d \in Digests : PersistDeclined(c, d)
    \/ \E c \in Callers, d \in Digests : RacyCheck(c, d)
    \/ \E c \in Callers : RacyMark(c)
    \/ \E c \in Callers : CommitOk(c)
    \/ \E c \in Callers : CommitFail(c)

RacySpec == Init /\ [][RacyNext]_vars

\* ------------------------------------ inserts without the precondition
\* SnapshotStore::insert called with any digest and any parent, also for a
\* digest that already has a snapshot
InsertAny(d, parent, changes) ==
    /\ snapshots' = insert(snapshots, d, LedgerSnapshot(parent, changes))
    /\ UNCHANGED <<persisted, persisting, pc, attempt, result, storeLog>>
    /\ UNCHANGED stateVars
    /\ UNCHANGED handleVars
    /\ UNCHANGED rootCalls

\* finalization of d: the parent links form a cycle of non-persisted
\* digests, the while loop never ends and the caller never returns
PersistHangs(c, d) ==
    /\ pc[c] = "idle"
    /\ Merged(d).err = "diverges"
    /\ pc' = [pc EXCEPT ![c] = "hung"]
    /\ result' = [result EXCEPT ![c] = "hung"]
    /\ attempt' = [attempt EXCEPT ![c] = NoAttempt]
    /\ UNCHANGED <<snapshots, persisted, persisting, storeLog>>
    /\ UNCHANGED stateVars
    /\ UNCHANGED handleVars
    /\ UNCHANGED rootCalls

\* the store has a single owner here: one caller drives persistence
Owner == 1

AnyInsertNext ==
    \/ \E d \in Digests, p \in Digests \cup {None} :
            \E ch \in BlockChanges(d) \ {EmptyChangeSet} : InsertAny(d, p, ch)
    \/ \E d \in Digests : PersistError(Owner, d)
    \/ \E d \in Digests : PersistStart(Owner, d)
    \/ \E d \in Digests : PersistHangs(Owner, d)
    \/ CommitOk(Owner)
    \/ CommitFail(Owner)

AnyInsertSpec == Init /\ [][AnyInsertNext]_vars

\* ------------------------------------------- overlay over the handle
storeOnly == <<snapshots, persisted, persisting, pc, attempt, result, storeLog>>

\* generations stay within the modelled range
WithinGen(st) == \A a \in DOMAIN st.accounts : st.accounts[a].generation <= MaxGen

\* OverlayState::new(base, changes)
NewOverlay(changes) ==
    /\ overlay' = changes
    /\ UNCHANGED <<store, executed>>
    /\ UNCHANGED storeOnly
    /\ UNCHANGED handleVars
    /\ UNCHANGED rootCalls

\* QmdbHandle::commit(changes) on the base
HandleCommit(changes) ==
    /\ UNCHANGED <<overlay, executed>>
    /\ UNCHANGED storeOnly
    /\ UNCHANGED handleVars
    /\ UNCHANGED rootCalls
    /\ store' = QmdbHandle_commit(store, changes)
    /\ WithinGen(store')

\* OverlayState::commit(changes)
OverlayCommit(changes) ==
    /\ UNCHANGED <<overlay, executed>>
    /\ UNCHANGED storeOnly
    /\ UNCHANGED handleVars
    /\ UNCHANGED rootCalls
    /\ store' = OverlayState_commit(store, overlay, changes)
    /\ WithinGen(store')

OverlayNext ==
    \/ \E cs \in ContractChangeSets : NewOverlay(cs)
    \/ \E cs \in ContractChangeSets : HandleCommit(cs)
    \/ \E cs \in ContractChangeSets : OverlayCommit(cs)

OverlaySpec == Init /\ [][OverlayNext]_vars

\* ------------------------------------------------ merging executed blocks
\* the execution of a block over the overlay returned a Change Set
Execute(changes) ==
    /\ executed' = changes
    /\ UNCHANGED <<store, overlay>>
    /\ UNCHANGED storeOnly
    /\ UNCHANGED handleVars
    /\ UNCHANGED rootCalls

\* the child's overlay holds merge_changes(overlay's changes, executed)
MergeExecuted ==
    /\ overlay' = merge_changes(overlay, executed)
    /\ UNCHANGED <<store, executed>>
    /\ UNCHANGED storeOnly
    /\ UNCHANGED handleVars
    /\ UNCHANGED rootCalls

MergeNext ==
    \/ \E cs \in ChangeSets : Execute(cs)
    \/ MergeExecuted

MergeSpec == Init /\ [][MergeNext]_vars

\* --------------------------------------------- an overlay on an overlay
\* the Change Sets of blocks that neither create nor destroy the contract
PlainChangeSets ==
    {cs \in ContractChangeSets :
        \A a \in DOMAIN cs : ~cs[a].created /\ ~cs[a].selfdestructed}

\* commit of an overlay holding `upper` whose base is an overlay holding
\* `lower` over the handle
Stacked_commit(base, lower, upper, newer) ==
    OverlayState_commit(base, lower, OverlayState_merged(upper, newer))

Stacked_compute_root(base, lower, upper, newer) ==
    OverlayState_compute_root(base, lower, OverlayState_merged(upper, newer))

\* reads of an overlay holding `upper` whose base is an overlay holding
\* `lower` over the handle
Stacked_nonce(base, lower, upper, address) ==
    IF address \in DOMAIN upper
    THEN Ok(upper[address].nonce)
    ELSE OverlayState_nonce(base, lower, address)

Stacked_balance(base, lower, upper, address) ==
    IF address \in DOMAIN upper
    THEN Ok(upper[address].balance)
    ELSE OverlayState_balance(base, lower, address)

Stacked_code_hash(base, lower, upper, address) ==
    IF address \in DOMAIN upper
    THEN Ok(upper[address].code_hash)
    ELSE OverlayState_code_hash(base, lower, address)

Stacked_storage(base, lower, upper, address, slot) ==
    IF address \in DOMAIN upper
    THEN LET update == upper[address]
         IN  IF update.selfdestructed THEN Ok(0)
             ELSE IF slot \in DOMAIN update.storage THEN Ok(update.storage[slot])
             ELSE IF update.created THEN Ok(0)
             ELSE OverlayState_storage(base, lower, address, slot)
    ELSE OverlayState_storage(base, lower, address, slot)

\* OverlayState::new(overlay, changes): an overlay stacked on `overlay`
NewStacked(changes) ==
    /\ stacked' = changes
    /\ UNCHANGED <<store, overlay, executed, reported, lock, hold, txn>>
    /\ UNCHANGED storeOnly
    /\ UNCHANGED rootCalls

\* commit(changes) on the stacked overlay
StackedCommit(changes) ==
    /\ reported' = Returned("commit", QmdbHandle_commit_root(store, changes))
    /\ UNCHANGED <<overlay, executed, stacked, lock, hold, txn>>
    /\ UNCHANGED storeOnly
    /\ UNCHANGED rootCalls
    /\ store' = Stacked_commit(store, overlay, stacked, changes)
    /\ WithinGen(store')

\* compute_root(changes) on the stacked overlay
StackedComputeRoot(changes) ==
    /\ reported' = Returned("compute_root",
                    Stacked_compute_root(store, overlay, stacked, changes))
    /\ UNCHANGED <<store, overlay, executed, stacked, lock, hold, txn>>
    /\ UNCHANGED storeOnly
    /\ UNCHANGED rootCalls

StackNext ==
    \/ \E cs \in PlainChangeSets : NewOverlay(cs)
    \/ \E cs \in PlainChangeSets : NewStacked(cs)
    \/ \E cs \in PlainChangeSets : StackedCommit(cs)
    \/ \E cs \in PlainChangeSets : StackedComputeRoot(cs)

StackSpec == Init /\ [][StackNext]_vars

\* ------------------------------------------- threads sharing the handle
notLock == <<overlay, executed, stacked>>

\* QmdbHandle::read by holder h: error on a poisoned lock, else a read guard
ReadBegin(h) ==
    /\ hold[h].pc = "idle"
    /\ CanRead(lock)
    /\ IF QmdbHandle_read(lock) = "LockPoisoned"
       THEN /\ reported' = Returns("read", "LockPoisoned")
            /\ UNCHANGED <<lock, hold>>
       ELSE /\ lock' = [lock EXCEPT !.readers = @ \cup {h}]
            /\ hold' = [hold EXCEPT ![h] = [pc |-> "reading", entry |-> "read"]]
            /\ UNCHANGED reported
    /\ UNCHANGED <<store, txn>>
    /\ UNCHANGED notLock
    /\ UNCHANGED storeOnly
    /\ UNCHANGED rootCalls

\* the read guard is dropped
ReadEnd(h) ==
    /\ hold[h].pc = "reading"
    /\ lock' = [lock EXCEPT !.readers = @ \ {h}]
    /\ hold' = [hold EXCEPT ![h] = Idle]
    /\ reported' = Returns("read", "ok")
    /\ UNCHANGED <<store, txn>>
    /\ UNCHANGED notLock
    /\ UNCHANGED storeOnly
    /\ UNCHANGED rootCalls

\* QmdbHandle::write by holder h
WriteBegin(h) ==
    /\ hold[h].pc = "idle"
    /\ CanWrite(lock)
    /\ IF QmdbHandle_write(lock) = "LockPoisoned"
       THEN /\ reported' = Returns("write", "LockPoisoned")
            /\ UNCHANGED <<lock, hold>>
       ELSE /\ lock' = [lock EXCEPT !.writers = @ \cup {h}]
            /\ hold' = [hold EXCEPT ![h] = [pc |-> "writing", entry |-> "write"]]
            /\ UNCHANGED reported
    /\ UNCHANGED <<store, txn>>
    /\ UNCHANGED notLock
    /\ UNCHANGED storeOnly
    /\ UNCHANGED rootCalls

\* the write guard is dropped
WriteEnd(h) ==
    /\ hold[h].pc = "writing"
    /\ lock' = [lock EXCEPT !.writers = @ \ {h}]
    /\ hold' = [hold EXCEPT ![h] = Idle]
    /\ reported' = Returns("write", "ok")
    /\ UNCHANGED <<store, txn>>
    /\ UNCHANGED notLock
    /\ UNCHANGED storeOnly
    /\ UNCHANGED rootCalls

\* a commit entry point takes the write guard and enters commit_changes
CommitBegin(h, entry, changes) ==
    /\ hold[h].pc = "idle"
    /\ CanWrite(lock)
    /\ IF QmdbHandle_write(lock) = "LockPoisoned"
       THEN /\ reported' = Returns(entry, "LockPoisoned")
            /\ UNCHANGED <<lock, hold, txn>>
       ELSE /\ WithinGen(commit_changes(store, changes))
            /\ lock' = [lock EXCEPT !.writers = @ \cup {h}]
            /\ hold' = [hold EXCEPT ![h] = [pc |-> "accounts", entry |-> entry]]
            /\ txn' = [pre |-> store, post |-> commit_changes(store, changes)]
            /\ UNCHANGED reported
    /\ UNCHANGED store
    /\ UNCHANGED notLock
    /\ UNCHANGED storeOnly
    /\ UNCHANGED rootCalls

\* write_batch of the accounts partition
WriteAccounts(h) ==
    /\ hold[h].pc = "accounts"
    /\ store' = [store EXCEPT !.accounts = txn.post.accounts]
    /\ hold' = [hold EXCEPT ![h].pc = "storage"]
    /\ UNCHANGED <<lock, reported, txn>>
    /\ UNCHANGED notLock
    /\ UNCHANGED storeOnly
    /\ UNCHANGED rootCalls

\* write_batch of the storage partition
WriteStorage(h) ==
    /\ hold[h].pc = "storage"
    /\ store' = [store EXCEPT !.storage = txn.post.storage]
    /\ hold' = [hold EXCEPT ![h].pc = "code"]
    /\ UNCHANGED <<lock, reported, txn>>
    /\ UNCHANGED notLock
    /\ UNCHANGED storeOnly
    /\ UNCHANGED rootCalls

\* write_batch of the code partition, then the entry point returns and the
\* write guard is dropped
WriteCode(h) ==
    /\ hold[h].pc = "code"
    /\ store' = [store EXCEPT !.code = txn.post.code]
    /\ lock' = [lock EXCEPT !.writers = @ \ {h}]
    /\ hold' = [hold EXCEPT ![h] = Idle]
    /\ reported' = Returns(hold[h].entry, "ok")
    /\ UNCHANGED txn
    /\ UNCHANGED notLock
    /\ UNCHANGED storeOnly
    /\ UNCHANGED rootCalls

\* the write_batch about to run fails: commit_changes returns the error,
\* the entry point returns and the write guard is dropped
BatchFails(h) ==
    /\ hold[h].pc \in {"accounts", "storage", "code"}
    /\ lock' = [lock EXCEPT !.writers = @ \ {h}]
    /\ hold' = [hold EXCEPT ![h] = Idle]
    /\ reported' = Returns(hold[h].entry, "Storage")
    /\ UNCHANGED <<store, txn>>
    /\ UNCHANGED notLock
    /\ UNCHANGED storeOnly
    /\ UNCHANGED rootCalls

\* the holder of the write guard panics: the guard is dropped during the
\* unwinding and the lock is poisoned
Panic(h) ==
    /\ hold[h].pc \in {"writing", "accounts", "storage", "code"}
    /\ lock' = [lock EXCEPT !.writers = @ \ {h}, !.poisoned = TRUE]
    /\ hold' = [hold EXCEPT ![h] = Idle]
    /\ reported' = [op |-> hold[h].entry, ok |-> FALSE, root |-> B256_ZERO,
                    err |-> "panic", failed |-> TRUE]
    /\ UNCHANGED <<store, txn>>
    /\ UNCHANGED notLock
    /\ UNCHANGED storeOnly
    /\ UNCHANGED rootCalls

HandleNext ==
    \/ \E h \in Holders : ReadBegin(h)
    \/ \E h \in Holders : ReadEnd(h)
    \/ \E h \in Holders : WriteBegin(h)
    \/ \E h \in Holders : WriteEnd(h)
    \/ \E h \in Holders, e \in CommitEntries :
            \E cs \in HandleChanges(e) : CommitBegin(h, e, cs)
    \/ \E h \in Holders : WriteAccounts(h)
    \/ \E h \in Holders : WriteStorage(h)
    \/ \E h \in Holders : WriteCode(h)
    \/ \E h \in Holders : BatchFails(h)
    \/ \E h \in Holders : Panic(h)

HandleSpec == Init /\ [][HandleNext]_vars

\* --------------------------------------------- bootstrap and transfers
\* the balance of a genesis allocation and the amount of the demo transfer
GenesisBalance == 1000

TransferAmount == 100

\* genesis allocations: (address, balance) pairs with distinct addresses
Allocations ==
    UNION {[A -> {GenesisBalance, 2 * GenesisBalance}] : A \in SUBSET Addresses}

\* the update of an account touched by transfers: nonce and balance only
BalanceUpdate(nonce, balance) ==
    [created |-> FALSE, selfdestructed |-> FALSE, nonce |-> nonce,
     balance |-> balance, code_hash |-> KECCAK256_EMPTY, code |-> None,
     storage |-> NoStorage]

BalanceUpdates ==
    {BalanceUpdate(n, b) :
        n \in 0..MaxVal, b \in {TransferAmount, GenesisBalance - TransferAmount}}

BalanceChangeSets == UNION {[A -> BalanceUpdates] : A \in SUBSET Addresses}

\* a handle over an empty store, before init_genesis
BootInit ==
    /\ snapshots = [d \in {Genesis} |-> LedgerSnapshot(None, EmptyChangeSet)]
    /\ persisted = {Genesis}
    /\ persisting = {}
    /\ pc = [c \in Callers |-> "idle"]
    /\ attempt = [c \in Callers |-> NoAttempt]
    /\ result = [c \in Callers |-> "none"]
    /\ storeLog = <<>>
    /\ store = EmptyStore
    /\ overlay = EmptyChangeSet
    /\ executed = EmptyChangeSet
    /\ stacked = EmptyChangeSet
    /\ reported = NoCall
    /\ lock = Unlocked
    /\ hold = [h \in Holders |-> Idle]
    /\ txn = [pre |-> EmptyStore, post |-> EmptyStore]
    /\ rootCalls = NoRootCalls

bootOnly == <<overlay, executed, stacked, lock, hold, txn>>

\* QmdbHandle::init_genesis(allocs), once, at bootstrap
InitGenesis(allocs) ==
    /\ store = EmptyStore
    /\ store' = init_genesis(store, allocs)
    /\ reported' = Returned("init_genesis", B256_ZERO)
    /\ UNCHANGED bootOnly
    /\ UNCHANGED storeOnly
    /\ UNCHANGED rootCalls

\* StateDbWrite::commit(changes) of the handle
Commit(changes) ==
    /\ store' = QmdbHandle_commit(store, changes)
    /\ reported' = Returned("commit", QmdbHandle_commit_root(store, changes))
    /\ UNCHANGED bootOnly
    /\ UNCHANGED storeOnly
    /\ UNCHANGED rootCalls

\* StateDbWrite::compute_root(changes) of the handle
ComputeRoot(changes) ==
    /\ reported' = Returned("compute_root",
                            QmdbHandle_compute_root(store, changes))
    /\ UNCHANGED store
    /\ UNCHANGED bootOnly
    /\ UNCHANGED storeOnly
    /\ UNCHANGED rootCalls

\* StateDb::state_root() of the handle
StateRoot ==
    /\ reported' = Returned("state_root", QmdbHandle_state_root(store))
    /\ UNCHANGED store
    /\ UNCHANGED bootOnly
    /\ UNCHANGED storeOnly
    /\ UNCHANGED rootCalls

BootNext ==
    \/ \E allocs \in Allocations : InitGenesis(allocs)
    \/ \E cs \in BalanceChangeSets : Commit(cs)
    \/ \E cs \in BalanceChangeSets : ComputeRoot(cs)
    \/ StateRoot

BootSpec == BootInit /\ [][BootNext]_vars

\* --------------------------------------------- reads through two layers
\* overlays over the handle and overlays stacked on them are created, and
\* blocks are committed to the handle
LayerNext ==
    \/ \E cs \in ContractChangeSets : NewOverlay(cs)
    \/ \E cs \in ContractChangeSets : NewStacked(cs)
    \/ \E cs \in ContractChangeSets : HandleCommit(cs)

LayerSpec == Init /\ [][LayerNext]_vars

\* ------------------------------------------- operations of an overlay
ReadFields == {"nonce", "balance", "code_hash", "storage"}

\* nonce, balance, code_hash or storage through the overlay
OverlayRead(field, address, slot) ==
    /\ UNCHANGED <<store, overlay, executed, stacked, lock, hold, txn>>
    /\ UNCHANGED storeOnly
    /\ UNCHANGED rootCalls
    /\ LET r == CASE field = "nonce" -> OverlayState_nonce(store, overlay, address)
                  [] field = "balance" ->
                        OverlayState_balance(store, overlay, address)
                  [] field = "code_hash" ->
                        OverlayState_code_hash(store, overlay, address)
                  [] OTHER -> OverlayState_storage(store, overlay, address, slot)
       IN  reported' = [op |-> field, ok |-> r.ok, root |-> r.value,
                        err |-> r.err, failed |-> ~r.ok]

\* OverlayState::merge_changes(newer): a new Change Set is returned
OverlayMergeChanges(newer) ==
    /\ reported' = Returned("merge_changes", B256_ZERO)
    /\ executed' = OverlayState_merged(overlay, newer)
    /\ UNCHANGED <<store, overlay, stacked, lock, hold, txn>>
    /\ UNCHANGED storeOnly
    /\ UNCHANGED rootCalls

OverlayComputeRoot_commits(changes) ==
    /\ reported' = Returned("compute_root",
                            OverlayState_compute_root(store, overlay, changes))
    /\ store' = OverlayState_commit(store, overlay, changes)
    /\ UNCHANGED <<overlay, executed, stacked, lock, hold, txn>>
    /\ UNCHANGED storeOnly
    /\ UNCHANGED rootCalls

\* OverlayState::compute_root(changes)
OverlayComputeRoot(changes) ==
    /\ reported' = Returned("compute_root",
                            OverlayState_compute_root(store, overlay, changes))
    /\ UNCHANGED <<store, overlay, executed, stacked, lock, hold, txn>>
    /\ UNCHANGED storeOnly
    /\ UNCHANGED rootCalls

\* the blocks handed to the overlay: none, or a write of the contract's
\* record, slot and code
FrameChanges == {EmptyChangeSet} \cup {Touch(v) : v \in 0..MaxVal}

FrameNext ==
    \/ \E cs \in FrameChanges : NewOverlay(cs)
    \/ \E f \in ReadFields, a \in Addresses, s \in Slots : OverlayRead(f, a, s)
    \/ \E cs \in FrameChanges : OverlayMergeChanges(cs)
    \/ \E cs \in FrameChanges : OverlayComputeRoot(cs)
    \/ \E cs \in FrameChanges : ComputeRoot(cs)
    \/ \E cs \in FrameChanges : OverlayCommit(cs)
    \/ \E cs \in FrameChanges : HandleCommit(cs)

FrameSpec == Init /\ [][FrameNext]_vars

\* ------------------------------------------------- calls of StateRoot
\* StateRoot::compute(accounts_root, storage_root, code_root), the i-th of
\* two calls compared
Compute(i, accounts_root, storage_root, code_root) ==
    /\ rootCalls' = [rootCalls EXCEPT
                        ![i] = RootCall(accounts_root, storage_root, code_root)]
    /\ UNCHANGED <<store, overlay, executed>>
    /\ UNCHANGED <<stacked, reported, lock, hold, txn>>
    /\ UNCHANGED storeOnly

RootNext ==
    \E i \in 1..2 : \E a \in Roots, s \in Roots, c \in Roots : Compute(i, a, s, c)

RootSpec == Init /\ [][RootNext]_vars

\* ------------------------------------------- retries and eventual success
\* every finalized digest is attempted again as long as an attempt on it can
\* start, and the store commit of an attempt that is repeated succeeds in
\* the end
Fairness ==
    \A c \in Callers, d \in Digests :
        /\ SF_vars(PersistStart(c, d))
        /\ SF_vars(CommitOk(c) /\ attempt[c].digest = d)

LiveSpec == Init /\ [][Next]_vars /\ Fairness

\* ------------------------------------------------------------ properties
Parent(d) == snapshots[d].parent

\* indices of the successful store commits whose chain contains d
CommitsIncluding(d) ==
    {i \in 1..Len(storeLog) : d \in Range(storeLog[i].chain)}

NoDuplicates(seq) ==
    \A i, j \in 1..Len(seq) : seq[i] = seq[j] => i = j

\* the deltas of the non-persisted ancestors of d and of d itself, applied
\* one at a time in height order, following the parent links
RECURSIVE InHeightOrder(_)
InHeightOrder(d) ==
    IF d \in persisted THEN EmptyChangeSet
    ELSE merge(InHeightOrder(Parent(d)), snapshots[d].qmdb_changes)

\* C1: every persisted digest other than genesis had its own Change Set
\* included in exactly one successful store commit (the committed Change Set
\* is the fold of the own Change Sets of that commit's chain), and no digest
\* is included in two successful store commits.
C1_PersistedExactlyOnce ==
    /\ \A d \in persisted \ {Genesis} :
          /\ Cardinality(CommitsIncluding(d)) = 1
          /\ \A i \in CommitsIncluding(d) :
                storeLog[i].changes =
                    FoldChain(snapshots, storeLog[i].chain,
                              Len(storeLog[i].chain))
    /\ \A d \in Digests : Cardinality(CommitsIncluding(d)) <= 1
    /\ \A i \in 1..Len(storeLog) : NoDuplicates(storeLog[i].chain)

\* two successful commits after a failed one
C1_Witness ==
    /\ Len(storeLog) >= 2
    /\ \E c \in Callers : result[c] = "failed"
    /\ \E d \in persisted \ {Genesis} :
          snapshots[d].qmdb_changes # EmptyChangeSet

\* C2: a digest other than genesis is persisted only if its parent is
\* persisted, and in the order of the store commits the delta of a parent
\* always comes before the delta of its child.
C2_AncestorsFirst ==
    /\ \A d \in persisted \ {Genesis} : Parent(d) \in persisted
    /\ \A i \in 1..Len(storeLog) :
          \A k \in 1..Len(storeLog[i].chain) :
             LET p == Parent(storeLog[i].chain[k]) IN
             IF k > 1 THEN p = storeLog[i].chain[k - 1]
             ELSE \/ p = Genesis
                  \/ \E j \in 1..(i - 1) : p \in Range(storeLog[j].chain)

\* a finalization arrived for a descendant first: one commit persisted a
\* chain of two digests
C2_Witness ==
    \E i \in 1..Len(storeLog) :
        /\ Len(storeLog[i].chain) >= 2
        /\ Range(storeLog[i].chain) \subseteq persisted

\* C3: for every non-persisted digest d with a snapshot,
\* merged_changes_for_persist(d) returns the chain oldest first (the first
\* element's parent is persisted, each later element's parent is the element
\* before it, the last element is d, no element is persisted) and the
\* Change Set obtained by applying the chain's deltas in height order.
C3_MergedOldestFirst ==
    \A d \in (DOMAIN snapshots) \ persisted :
        LET r == Merged(d) IN
        /\ r.ok
        /\ Len(r.chain) >= 1
        /\ Parent(r.chain[1]) \in persisted
        /\ \A k \in 2..Len(r.chain) : Parent(r.chain[k]) = r.chain[k - 1]
        /\ r.chain[Len(r.chain)] = d
        /\ Range(r.chain) \cap persisted = {}
        /\ r.changes = InHeightOrder(d)

\* a chain of two digests whose deltas do not commute
C3_Witness ==
    \E d \in (DOMAIN snapshots) \ persisted :
        /\ Len(Merged(d).chain) >= 2
        /\ merge(snapshots[d].qmdb_changes,
                 snapshots[Parent(d)].qmdb_changes) # Merged(d).changes

InFlight(c) == pc[c] = "commit"

ChainOf(c) == Range(attempt[c].chain)

\* C4: with the check and the mark in one exclusive section, no two commit
\* attempts that are in flight at the same time have chains that share a
\* digest.
C4_InFlightChainsDisjoint ==
    \A c1, c2 \in Callers :
        (c1 # c2 /\ InFlight(c1) /\ InFlight(c2))
            => ChainOf(c1) \cap ChainOf(c2) = {}

\* two commits in flight at once while a digest below one of them is still
\* waiting
C4_Witness ==
    \E c1, c2 \in Callers :
        /\ c1 # c2 /\ InFlight(c1) /\ InFlight(c2)
        /\ ChainOf(c1) # {} /\ ChainOf(c2) # {}

\* C5: without an exclusive section around the check and the mark, every
\* caller whose check returned true goes on to mark its chain and commit,
\* whatever the other callers did in between; the witness is the
\* interleaving in which two callers commit the same chain.
C5_StepProceeds ==
    \A c \in Callers :
        (pc[c] = "checked" /\ pc'[c] # "checked") =>
            /\ InFlight(c)'
            /\ attempt'[c] = attempt[c]
            /\ ChainOf(c) \subseteq persisting'

C5_CheckedCallersProceed ==
    /\ [](\A c \in Callers : pc[c] = "checked" => ENABLED RacyMark(c))
    /\ [][C5_StepProceeds]_vars

\* both callers got true for the same chain and both are committing it
C5_Witness ==
    \E c1, c2 \in Callers :
        /\ c1 # c2 /\ InFlight(c1) /\ InFlight(c2)
        /\ attempt[c1].chain = attempt[c2].chain
        /\ attempt[c1].chain # <<>>

\* C6: while an attempt is in flight none of its chain is persisted; when
\* its commit fails none of its chain is persisted afterwards, when it
\* succeeds all of its chain is.
C6_StepAllOrNothing ==
    \A c \in Callers :
        (InFlight(c) /\ pc'[c] = "idle") =>
            IF result'[c] = "failed"
            THEN ChainOf(c) \cap persisted' = {}
            ELSE ChainOf(c) \subseteq persisted'

C6_AllOrNothing ==
    /\ [](\A c \in Callers : InFlight(c) => ChainOf(c) \cap persisted = {})
    /\ [][C6_StepAllOrNothing]_vars

\* a commit of a chain of two digests failed and neither is persisted
C6_Witness ==
    \E c \in Callers :
        /\ result[c] = "failed"
        /\ Len(attempt[c].chain) >= 2
        /\ ChainOf(c) \cap persisted = {}

\* C7: right after a failed commit and clear_persisting_chain,
\* can_persist_chain returns true for the same chain.
C7_StepRetryable ==
    \A c \in Callers :
        (InFlight(c) /\ pc'[c] = "idle" /\ result'[c] = "failed") =>
            can_persist_chain(persisted', persisting', attempt[c].chain)

C7_RetryableAfterFailure == [][C7_StepRetryable]_vars

\* a chain whose commit failed is in flight again
C7_Witness ==
    \E c1, c2 \in Callers :
        /\ result[c1] = "failed"
        /\ InFlight(c2)
        /\ attempt[c2].chain = attempt[c1].chain
        /\ Len(attempt[c1].chain) >= 2

\* C8: no digest stays in `persisting` forever, and every digest with a
\* snapshot is eventually persisted, when attempts are repeated and the
\* store commit eventually succeeds.
C8_EventuallyPersisted ==
    \A d \in Digests : [](d \in DOMAIN snapshots => <>(d \in persisted))

C8_NoDigestStaysPersisting ==
    /\ \A d \in Digests : [](d \in persisting => <>(d \notin persisting))
    /\ \A d \in Digests : [](d \in DOMAIN snapshots => <>(d \in persisted))

RECURSIVE ReachesGenesis(_, _)
ReachesGenesis(d, fuel) ==
    IF d = Genesis THEN TRUE
    ELSE IF fuel = 0 \/ d \notin DOMAIN snapshots THEN FALSE
    ELSE ReachesGenesis(snapshots[d].parent, fuel - 1)

\* C9: genesis has a snapshot and is persisted; every digest in `persisted`
\* or `persisting` has a snapshot and reaches genesis through parent links.
C9_RootedAtGenesis ==
    /\ Genesis \in DOMAIN snapshots
    /\ Genesis \in persisted
    /\ \A d \in persisted \cup persisting :
          /\ d \in DOMAIN snapshots
          /\ ReachesGenesis(d, MaxDigest + 1)

\* a digest in flight whose parent is a persisted digest other than genesis
C9_Witness ==
    \E d \in persisting \ persisted : Parent(d) \in persisted \ {Genesis}

\* chains of at most two digests
ShortChains ==
    {<<d>> : d \in Digests} \cup {<<d, e>> : d \in Digests, e \in Digests}

\* C10: a persisted digest stays persisted over every step, no step puts it
\* into `persisting` or back to pending, and can_persist_chain is false for
\* every chain that contains it.
C10_StepTerminal ==
    \A d \in persisted :
        /\ d \in persisted'
        /\ d \in persisting' => d \in persisting

C10_PersistedTerminal ==
    /\ [](\A d \in persisted : \A chain \in ShortChains :
             d \in Range(chain)
                 => ~can_persist_chain(persisted, persisting, chain))
    /\ [][C10_StepTerminal]_vars

\* a digest persisted by the first commit, with a later insert, a later
\* failed attempt and a later successful one
C10_Witness ==
    /\ Len(storeLog) >= 2
    /\ DOMAIN snapshots = Digests
    /\ \E c \in Callers : result[c] = "failed"

\* the per-digest states of the store
Pending(d) ==
    d \in DOMAIN snapshots /\ d \notin persisted /\ d \notin persisting

AllPending(chain) == \A i \in 1..Len(chain) : Pending(chain[i])

NoneMarked(chain) ==
    \A i \in 1..Len(chain) : chain[i] \notin (persisted \cup persisting)

\* C11 as stated: can_persist_chain(chain) is true if and only if every
\* digest of the chain is pending (has a snapshot, is neither persisted nor
\* persisting).
C11_TrueIffAllPending ==
    \A chain \in ShortChains :
        can_persist_chain(persisted, persisting, chain) <=> AllPending(chain)

\* C11 amended: can_persist_chain(chain) is true if and only if no digest of
\* the chain is in `persisted` or `persisting`; a digest without a snapshot
\* does not make it false, and for chains whose digests all have snapshots
\* this is the same as every digest being pending.
C11_TrueIffNoneMarked ==
    \A chain \in ShortChains :
        /\ can_persist_chain(persisted, persisting, chain) <=> NoneMarked(chain)
        /\ Range(chain) \subseteq DOMAIN snapshots =>
              (can_persist_chain(persisted, persisting, chain)
                  <=> AllPending(chain))

\* a chain of an unknown digest is accepted while the same chain with a
\* digest in flight is refused
C11_Witness ==
    \E u \in Digests, p \in persisting \ persisted :
        /\ u \notin DOMAIN snapshots
        /\ can_persist_chain(persisted, persisting, <<u>>)
        /\ ~can_persist_chain(persisted, persisting, <<p, u>>)

\* C12: no digest is in both `persisted` and `persisting`; after
\* mark_persisted_chain every digest of the chain is persisted and none of
\* them is still in `persisting`.
C12_ExactlyOneState ==
    /\ persisted \cap persisting = {}
    /\ \A c \in Callers :
          result[c] = "ok" =>
              /\ ChainOf(c) \subseteq persisted
              /\ ChainOf(c) \cap persisting = {}

\* C13: once a snapshot is recorded under a digest it never changes: a later
\* insert under that digest does not replace it.
C13_SnapshotsImmutable ==
    [][\A d \in DOMAIN snapshots :
          d \in DOMAIN snapshots' /\ snapshots'[d] = snapshots[d]]_vars

\* C14: for a persisted digest merged_changes_for_persist returns an empty
\* chain and the empty Change Set.
C14_PersistedGivesEmpty ==
    \A d \in persisted :
        /\ Merged(d).ok
        /\ Merged(d).chain = <<>>
        /\ Merged(d).changes = EmptyChangeSet

\* a persisted digest with a non-empty delta and a non-persisted child
C14_Witness ==
    \E d \in persisted \ {Genesis} :
        /\ snapshots[d].qmdb_changes # EmptyChangeSet
        /\ \E e \in (DOMAIN snapshots) \ persisted : Parent(e) = d

\* following the parent links from d through non-persisted digests ends at
\* a digest without a snapshot or at a snapshot without a parent
RECURSIVE BrokenFrom(_, _)
BrokenFrom(d, fuel) ==
    IF d \in persisted THEN FALSE
    ELSE IF d \notin DOMAIN snapshots THEN TRUE
    ELSE IF snapshots[d].parent = None THEN TRUE
    ELSE IF fuel = 0 THEN FALSE
    ELSE BrokenFrom(snapshots[d].parent, fuel - 1)

C15_StepErrorChangesNothing ==
    \A c \in Callers, d \in Digests :
        PersistError(c, d) => UNCHANGED <<snapshots, persisted, persisting>>

\* C15: when the walk back from d reaches a non-persisted digest that has no
\* snapshot or whose snapshot has no parent, merged_changes_for_persist
\* returns an error and neither a chain nor a Change Set, and the store is
\* the same after the call.
C15_BrokenChainIsError ==
    /\ [](\A d \in Digests :
             BrokenFrom(d, MaxDigest + 1) =>
                 /\ ~Merged(d).ok
                 /\ Merged(d).err \in {"missing snapshot",
                                       "missing parent snapshot"}
                 /\ Merged(d).chain = <<>>
                 /\ Merged(d).changes = EmptyChangeSet)
    /\ [][C15_StepErrorChangesNothing]_vars

\* the owner got the error for a chain of two non-persisted digests whose
\* oldest snapshot has no parent
C15_Witness ==
    /\ result[Owner] = "error"
    /\ \E d, e \in (DOMAIN snapshots) \ persisted :
          /\ Parent(d) = e
          /\ Parent(e) = None
          /\ Merged(d).err = "missing parent snapshot"

\* ------------------------------------------------------- overlay reads
\* the base after the overlay's Change Set has been committed to it
Committed == QmdbHandle_commit(store, overlay)

\* C16: every read (nonce, balance, code_hash, storage, exists) through the
\* overlay returns the same result, value or error, as the same read on the
\* base after the overlay's Change Set has been committed to it
C16_OverlayReadsAsCommitted ==
    \A a \in Addresses :
        /\ OverlayState_nonce(store, overlay, a) = QmdbHandle_nonce(Committed, a)
        /\ OverlayState_balance(store, overlay, a) = QmdbHandle_balance(Committed, a)
        /\ OverlayState_code_hash(store, overlay, a)
              = QmdbHandle_code_hash(Committed, a)
        /\ OverlayState_exists(store, overlay, a) = QmdbHandle_exists(Committed, a)
        /\ \A s \in Slots :
              OverlayState_storage(store, overlay, a, s)
                  = QmdbHandle_storage(Committed, a, s)

\* C17: when the overlay's update of an address is marked selfdestructed,
\* the overlay's storage read of every slot of that address is zero,
\* whatever the update's storage map and the base hold and whether or not
\* the update is marked created
C17_SelfdestructedReadsZero ==
    \A a \in DOMAIN overlay : \A s \in Slots :
        overlay[a].selfdestructed
            => OverlayState_storage(store, overlay, a, s) = Ok(0)

C17_Witness ==
    \E a \in DOMAIN overlay : \E s \in DOMAIN overlay[a].storage :
        /\ overlay[a].selfdestructed
        /\ overlay[a].created
        /\ overlay[a].storage[s] # 0
        /\ QmdbHandle_storage(store, a, s).value # 0

\* C18: for an update marked created and not selfdestructed the overlay's
\* storage read is the update's value for a slot of its map and zero for
\* any other slot; for an address without update, or with an update neither
\* created nor selfdestructed that lacks the slot, it is the base's read
C18_CreatedNeverReadsBase ==
    \A a \in Addresses, s \in Slots :
        LET read == OverlayState_storage(store, overlay, a, s) IN
        IF a \notin DOMAIN overlay
        THEN read = QmdbHandle_storage(store, a, s)
        ELSE /\ (overlay[a].created /\ ~overlay[a].selfdestructed)
                  => read = IF s \in DOMAIN overlay[a].storage
                            THEN Ok(overlay[a].storage[s]) ELSE Ok(0)
             /\ (~overlay[a].created /\ ~overlay[a].selfdestructed
                    /\ s \notin DOMAIN overlay[a].storage)
                  => read = QmdbHandle_storage(store, a, s)

C18_Witness ==
    \E a \in DOMAIN overlay, s \in Slots :
        /\ overlay[a].created
        /\ ~overlay[a].selfdestructed
        /\ s \notin DOMAIN overlay[a].storage
        /\ QmdbHandle_storage(store, a, s).value # 0
        /\ OverlayState_storage(store, overlay, a, s) = Ok(0)

\* C19: the overlay's nonce, balance and code_hash of an address are the
\* fields of the overlay's update of that address when there is one,
\* whatever the base holds, and exactly the base's results otherwise
C19_ScalarsFromUpdateElseBase ==
    \A a \in Addresses :
        IF a \in DOMAIN overlay
        THEN /\ OverlayState_nonce(store, overlay, a) = Ok(overlay[a].nonce)
             /\ OverlayState_balance(store, overlay, a) = Ok(overlay[a].balance)
             /\ OverlayState_code_hash(store, overlay, a)
                    = Ok(overlay[a].code_hash)
        ELSE /\ OverlayState_nonce(store, overlay, a) = QmdbHandle_nonce(store, a)
             /\ OverlayState_balance(store, overlay, a)
                    = QmdbHandle_balance(store, a)
             /\ OverlayState_code_hash(store, overlay, a)
                    = QmdbHandle_code_hash(store, a)

C19_Witness ==
    \E a \in DOMAIN overlay :
        /\ a \notin DOMAIN store.accounts
        /\ store.storage # NoStorage
        /\ OverlayState_nonce(store, overlay, a) = Ok(overlay[a].nonce)

\* C20: merge_changes is associative: for the overlay's Change Set A, the
\* executed Change Set B and every Change Set C,
\* merge(merge(A, B), C) = merge(A, merge(B, C))
C20_MergeAssociative ==
    \A C \in ChangeSets :
        merge_changes(merge_changes(overlay, executed), C)
            = merge_changes(overlay, merge_changes(executed, C))

C20_Witness ==
    /\ 1 \in DOMAIN overlay
    /\ 1 \in DOMAIN executed
    /\ 2 \in DOMAIN overlay
    /\ overlay[1].storage # NoStorage
    /\ overlay[1].created
    /\ executed[1].selfdestructed
    /\ merge_changes(overlay, executed)[1].storage = overlay[1].storage

\* ------------------------------------------- merged and sequential commits
\* everything that can be read through the handle
Readable(st) ==
    [a \in Addresses |->
        [nonce |-> QmdbHandle_nonce(st, a),
         balance |-> QmdbHandle_balance(st, a),
         code_hash |-> QmdbHandle_code_hash(st, a),
         storage |-> [s \in Slots |-> QmdbHandle_storage(st, a, s)]]]

\* C21: for the base, the overlay's Change Set A and every Change Set B,
\* committing merge(A, B) to the base leaves the same readable state as
\* committing A and then committing B
C21_MergedCommitAsSequential ==
    \A B \in ContractChangeSets :
        Readable(QmdbHandle_commit(store, merge(overlay, B)))
            = Readable(QmdbHandle_commit(QmdbHandle_commit(store, overlay), B))

\* ------------------------------------------------ stacked overlay writes
\* what the base receives from a single overlay holding merge(A, B)
SingleOverlayPasses(C) == OverlayState_merged(merge(overlay, stacked), C)

\* what the base receives from the overlay holding B stacked on the one
\* holding A
StackedPasses(C) ==
    OverlayState_merged(overlay, OverlayState_merged(stacked, C))

C22_StepStackedWrites ==
    \A C \in PlainChangeSets :
        /\ StackedCommit(C)
              => /\ store' = QmdbHandle_commit(store, SingleOverlayPasses(C))
                 /\ overlay' = overlay /\ stacked' = stacked
        /\ StackedComputeRoot(C)
              => /\ reported'.root
                        = QmdbHandle_compute_root(store, SingleOverlayPasses(C))
                 /\ store' = store
                 /\ overlay' = overlay /\ stacked' = stacked

\* C22: commit(C) and compute_root(C) on an overlay holding B stacked on an
\* overlay holding A pass to the base the Change Set that one overlay
\* holding merge(A, B) passes, which is A, B and C merged oldest first, and
\* leave the Change Sets of both overlays unchanged
C22_StackedAsMerged ==
    /\ [](\A C \in ContractChangeSets :
            /\ StackedPasses(C) = SingleOverlayPasses(C)
            /\ StackedPasses(C) = merge(merge(overlay, stacked), C))
    /\ [][C22_StepStackedWrites]_vars

C22_Witness ==
    /\ reported.op = "commit"
    /\ 1 \in DOMAIN overlay /\ 1 \in DOMAIN stacked
    /\ 1 \in DOMAIN overlay[1].storage
    /\ 1 \notin DOMAIN stacked[1].storage
    /\ overlay[1].nonce # stacked[1].nonce
    /\ 1 \in DOMAIN store.accounts
    /\ store.accounts[1].nonce = stacked[1].nonce
    /\ QmdbHandle_storage(store, 1, 1) = Ok(overlay[1].storage[1])
    /\ overlay[1].storage[1] # 0

\* ------------------------------------------------- the handle's lock
HasRead(h) == hold[h].pc = "reading"

HasWrite(h) == hold[h].pc \in {"writing", "accounts", "storage", "code"}

\* C23: either no holder has write access, or exactly one holder has write
\* access and no holder has read access
C23_ReadersOrOneWriter ==
    LET W == {h \in Holders : HasWrite(h)}
        R == {h \in Holders : HasRead(h)}
    IN  \/ W = {}
        \/ Cardinality(W) = 1 /\ R = {}

\* two holders read at the same time after a commit went through
C23_Witness ==
    /\ Cardinality({h \in Holders : HasRead(h)}) >= 2
    /\ store # GenesisStore

\* C24: a holder with read access sees the three partitions all as they
\* were before the last commit begun or all as they are after it
C24_ReadsSeeNoMix ==
    \A h \in Holders : HasRead(h) => store \in {txn.pre, txn.post}

C25_StepPoisonedForGood ==
    lock.poisoned
        => /\ lock'.poisoned
           /\ store' = store
           /\ \A h \in Holders : hold'[h] = Idle
           /\ reported' # reported
                 => (reported'.op \in {"read", "write", "commit", "init_genesis"}
                        => ~reported'.ok /\ reported'.err = "LockPoisoned")

\* C25: once the lock is poisoned it stays poisoned, every later read,
\* write, commit and init_genesis of any holder fails with the lock-poisoned
\* error, and the store is not modified
C25_PoisonedForGood ==
    /\ [](lock.poisoned => \A h \in Holders : hold[h] = Idle)
    /\ [][C25_StepPoisonedForGood]_vars

C25_Witness ==
    /\ lock.poisoned
    /\ reported.op = "init_genesis"
    /\ reported.err = "LockPoisoned"
    /\ store # txn.post

\* C26: no commit entry point returns normally when the commit under it
\* failed
C26_CommitErrorsReachCaller ==
    (reported.op \in CommitEntries /\ reported.failed) => ~reported.ok

\* ------------------------------------------------------- incarnations
\* a commit that (re)creates an account leaves no slot of an earlier
\* incarnation readable: every slot it does not write itself reads zero
C27_StepNoStaleSlots ==
    \A cs \in ContractChangeSets :
        HandleCommit(cs)
            => \A a \in Written(cs) :
                  cs[a].created
                      => \A s \in Slots \ DOMAIN cs[a].storage :
                            QmdbHandle_storage(store', a, s) = Ok(0)

TransferBlock ==
    [a \in {1, 2} |->
        IF a = 1 THEN BalanceUpdate(1, GenesisBalance - TransferAmount)
                 ELSE BalanceUpdate(0, TransferAmount)]

C28_StepTransfer ==
    (store = init_genesis(EmptyStore, [a \in {1} |-> GenesisBalance])
        /\ Commit(TransferBlock))
        => /\ QmdbHandle_balance(store', 1)
                 = Ok(GenesisBalance - TransferAmount)
           /\ QmdbHandle_balance(store', 2) = Ok(TransferAmount)
           /\ reported'.root # QmdbHandle_state_root(store)
           /\ QmdbHandle_state_root(store') # QmdbHandle_state_root(store)

\* C28: after genesis allocates X with balance 1000 and the block that sets
\* X to 900 and Y to 100 is committed, balance(X) is 900, balance(Y) is 100
\* and the state root reported after the commit differs from the one
\* reported after genesis
C28_TransferChangesRoot == [][C28_StepTransfer]_vars

\* C29: compute_root(changes) returns the root that commit(changes) returns
\* on the same store, and that root is state_root() right after the commit
C29_ComputeRootAsCommit ==
    \A cs \in BalanceChangeSets :
        /\ QmdbHandle_compute_root(store, cs) = QmdbHandle_commit_root(store, cs)
        /\ QmdbHandle_commit_root(store, cs)
              = QmdbHandle_state_root(QmdbHandle_commit(store, cs))

C30_StepGenesis ==
    \A allocs \in Allocations :
        InitGenesis(allocs)
            => /\ DOMAIN store'.accounts = DOMAIN allocs
               /\ \A a \in DOMAIN allocs :
                     /\ QmdbHandle_balance(store', a) = Ok(allocs[a])
                     /\ QmdbHandle_nonce(store', a) = Ok(0)
                     /\ QmdbHandle_code_hash(store', a) = Ok(KECCAK256_EMPTY)
               /\ store'.storage = NoStorage
               /\ store'.code = NoStorage

\* C30: after init_genesis(allocations) on an empty store every listed
\* account exists with its balance, nonce zero, the empty-code hash and no
\* storage, and no other account is created
C30_GenesisCreatesAllocations == [][C30_StepGenesis]_vars

C30_Witness ==
    /\ reported.op = "init_genesis"
    /\ DOMAIN store.accounts = {a \in Addresses : a # 2}
    /\ QmdbHandle_balance(store, 1) = Ok(2 * GenesisBalance)
    /\ QmdbHandle_exists(store, 1) = Ok(TRUE)
    /\ QmdbHandle_exists(store, 2) = Ok(FALSE)

\* ------------------------------------------------------ not-found reads
NeverWritten(a, s) == \A k \in DOMAIN store.storage : ~(k[1] = a /\ k[3] = s)

\* C31: for an address without an account record nonce, balance and
\* code_hash return the account-not-found error, storage returns zero for
\* every slot and basic_ref returns no account; for an existing account the
\* storage read of a slot never written returns zero
C31_MissingAccountReads ==
    \A a \in Addresses :
        /\ a \notin DOMAIN store.accounts
              => /\ QmdbHandle_nonce(store, a) = Err("AccountNotFound")
                 /\ QmdbHandle_balance(store, a) = Err("AccountNotFound")
                 /\ QmdbHandle_code_hash(store, a) = Err("AccountNotFound")
                 /\ QmdbHandle_basic_ref(store, a) = Ok(None)
                 /\ \A s \in Slots : QmdbHandle_storage(store, a, s) = Ok(0)
        /\ a \in DOMAIN store.accounts
              => \A s \in Slots :
                    NeverWritten(a, s) => QmdbHandle_storage(store, a, s) = Ok(0)

\* the contract account was destroyed after a non-zero slot write, the
\* externally owned account exists and never had storage
C31_Witness ==
    /\ 1 \notin DOMAIN store.accounts
    /\ \E s \in Slots :
          /\ StorageKey(1, 0, s) \in DOMAIN store.storage
          /\ store.storage[StorageKey(1, 0, s)] # 0
    /\ 2 \in DOMAIN store.accounts
    /\ \A s \in Slots : NeverWritten(2, s)

\* C32: a code lookup for a hash without an entry in the code partition
\* returns empty bytes, never an error
C32_MissingCodeReadsEmpty ==
    \A h \in CodeHashes :
        h \notin DOMAIN store.code => QmdbHandle_code(store, h) = Ok(EmptyBytes)

\* ------------------------------------------------------------- exists
\* e is the answer of exists when nonce answered n and balance answered b
Derived(n, b, e) ==
    /\ (n.ok /\ b.ok) => e = Ok(n.value > 0 \/ b.value # 0)
    /\ (n.ok /\ n.value > 0) => e = Ok(TRUE)
    /\ (~n.ok /\ n.err = "AccountNotFound") => e = Ok(FALSE)
    /\ (~n.ok /\ n.err # "AccountNotFound") => e = n

\* C33: on the handle and on every Overlay over it, exists(address) is true
\* iff the nonce is positive or the balance non-zero, false when nonce
\* reports account-not-found, and any other error of nonce unchanged
C33_ExistsFromNonceAndBalance ==
    \A a \in Addresses :
        /\ \A n \in Outcomes(lock, QmdbHandle_nonce(store, a)) :
              \A b \in Outcomes(lock, QmdbHandle_balance(store, a)) :
                  Derived(n, b, exists(n, b))
        /\ \A cs \in ContractChangeSets :
              Derived(OverlayState_nonce(store, cs, a),
                      OverlayState_balance(store, cs, a),
                      OverlayState_exists(store, cs, a))

\* a poisoned lock over a store where the contract account has a record
\* with nonce and balance zero and the other account only a balance
C33_Witness ==
    /\ lock.poisoned
    /\ QmdbHandle_nonce(store, 1) = Ok(0)
    /\ QmdbHandle_balance(store, 1) = Ok(0)
    /\ QmdbHandle_exists(store, 1) = Ok(FALSE)
    /\ QmdbHandle_nonce(store, 2) = Ok(0)
    /\ QmdbHandle_exists(store, 2) = Ok(TRUE)

C35_WalkSucceeds == \A d \in DOMAIN snapshots : Merged(d).ok

\* a chain of two non-persisted digests, the older one a child of genesis,
\* while a persistence attempt is in flight
C35_Witness ==
    \E d \in (DOMAIN snapshots) \ persisted :
        /\ Len(Merged(d).chain) = 2
        /\ Parent(Merged(d).chain[1]) = Genesis
        /\ \E c \in Callers : result[c] = "failed"

\* C36: the parent links never form a cycle: in every state reachable
\* through insert merged_changes_for_persist(d) terminates for every digest
\* d and its chain holds no digest twice
C36_NoParentCycle ==
    \A d \in Digests :
        /\ Merged(d).err # "diverges"
        /\ NoDuplicates(Merged(d).chain)

\* ------------------------------------------------- overlays and commits
\* the four reads through an Overlay holding cs over base st
OverlayReads(st, cs) ==
    [a \in Addresses |->
        [nonce |-> OverlayState_nonce(st, cs, a),
         balance |-> OverlayState_balance(st, cs, a),
         code_hash |-> OverlayState_code_hash(st, cs, a),
         storage |-> [s \in Slots |-> OverlayState_storage(st, cs, a, s)]]]

C37_StepReadsStable ==
    overlay' = overlay => OverlayReads(store', overlay) = OverlayReads(store, overlay)

\* C37: a read through the Overlay of a recorded snapshot returns the same
\* result whatever commits are applied to the shared store after the
\* snapshot was recorded
C37_SnapshotReadsStable == [][C37_StepReadsStable]_vars

\* the four reads through an Overlay holding B stacked on one holding A
StackedReads(st, A, B) ==
    [a \in Addresses |->
        [nonce |-> Stacked_nonce(st, A, B, a),
         balance |-> Stacked_balance(st, A, B, a),
         code_hash |-> Stacked_code_hash(st, A, B, a),
         storage |-> [s \in Slots |-> Stacked_storage(st, A, B, a, s)]]]

\* C38: every read through an Overlay holding B stacked on an Overlay
\* holding A returns what the same read returns through one Overlay holding
\* merge(A, B) over the same base
C38_StackedReadsAsMerged ==
    StackedReads(store, overlay, stacked)
        = OverlayReads(store, merge(overlay, stacked))

\* ------------------------------------------------------ frame of overlays
C39_StepFrame ==
    /\ \A f \in ReadFields, a \in Addresses, s \in Slots :
          OverlayRead(f, a, s) => store' = store /\ overlay' = overlay
    /\ \A cs \in FrameChanges :
          /\ OverlayMergeChanges(cs) => store' = store /\ overlay' = overlay
          /\ OverlayComputeRoot(cs) => store' = store /\ overlay' = overlay
          /\ ComputeRoot(cs) => store' = store /\ overlay' = overlay
          /\ OverlayCommit(cs) => overlay' = overlay
          /\ HandleCommit(cs) => overlay' = overlay
    /\ store' # store
          => \E cs \in FrameChanges : OverlayCommit(cs) \/ HandleCommit(cs)

\* C39: Overlay reads, merge_changes and compute_root (on an Overlay and on
\* the handle) leave the durable partitions unchanged, no operation on an
\* Overlay changes the Change Set it holds, and only commit writes to the
\* base
C39_OnlyCommitWrites == [][C39_StepFrame]_vars

\* a root was computed through an Overlay that holds a slot write, after a
\* commit wrote the store and merge_changes returned a merged Change Set
C39_Witness ==
    /\ reported.op = "compute_root"
    /\ store # GenesisStore
    /\ 1 \in DOMAIN overlay /\ DOMAIN overlay[1].storage # {}
    /\ executed # overlay /\ executed # EmptyChangeSet

\* ------------------------------------------------------ failed commits
C40_StepFailedCommitWritesNothing ==
    \A h \in Holders :
        (BatchFails(h) /\ hold[h].entry = "commit") => store' = txn.pre

\* C40: when commit(changes) returns an error because a partition's write
\* batch failed, the three partitions hold what they held before the call
C40_FailedCommitWritesNothing == [][C40_StepFailedCommitWritesNothing]_vars

TypeOK ==
    /\ DOMAIN snapshots \subseteq Digests
    /\ persisted \subseteq Digests
    /\ persisting \subseteq Digests
    /\ \A c \in Callers : pc[c] \in {"idle", "checked", "commit", "hung"}

====
